---- MODULE Spec2Model ----
(***************************************************************************)
(* A model of asyncoro.py (dispy): the coroutine scheduler AsynCoro, the   *)
(* coroutine handle Coro, the readiness notifier _AsyncNotifier and the    *)
(* asynchronous socket AsynCoroSocket.                                     *)
(*                                                                         *)
(* Threads: the scheduler worker (AsynCoro._scheduler), the notifier       *)
(* worker (_AsyncNotifier._notifier) and any number of other threads that  *)
(* call Coro(...), coro.suspend/resume/throw.  Every section of code that  *)
(* runs with AsynCoro._sched_cv held is one action.  A step of a coroutine *)
(* is three actions: scheduler_step (the worker marks it Running and       *)
(* decides the send/throw call), the calls the generator body makes while  *)
(* it runs (suspend, socket operations; other threads interleave), and     *)
(* scheduler_outcome (the worker handles what the generator did).          *)
(***************************************************************************)
EXTENDS Integers, Sequences, FiniteSets, TLC

\* ------------------------------------------------------------------ bounds
MaxCoros == 2        \* coroutines ever created
MaxVal == 1          \* plain values 1..MaxVal are yielded and resumed with
MaxErr == 1          \* user errors 1..MaxErr are raised and thrown
MaxDepth == 1        \* nesting of sub-generators
MaxTime == 2         \* the clock runs 1..MaxTime+1
MaxSleep == 2        \* sleep(t), t in 1..MaxSleep
MaxTimers == 1       \* entries of _timeouts (Spec)
SleepTimers == 2     \* entries of _timeouts (SpecSleep)
MaxFds == 2          \* sockets constructed (SpecNet)
FdTimeout == 2       \* _fd_timeout, in ticks of the clock
NetCoros == 1        \* coroutines created (SpecNet)
NetSocks == 1        \* sockets constructed (SpecNet)
ReqCoros == 1        \* coroutines created (SpecReq)
Radix == 2           \* a byte is one of 0..Radix-1 (SpecMsg)
MaxPayload == 2      \* bytes of payload of a message (SpecMsg)
MaxNotify == 2       \* calls of notify that find a waiter (SpecCond)

\* ------------------------------------------------- AsynCoro state constants
Scheduled == 1
Running == 2
Suspended == 3
Stopped == 4
Frozen == 5

CIDs == 1..MaxCoros
Fds == 1..MaxFds

\* ------------------------------------------------------------------ values
\* Every Python value the model handles is a record [k, n].
None_ == [k |-> "none", n |-> 0]
Plain(n) == [k |-> "plain", n |-> n]
Exc(e) == [k |-> "exc", n |-> e]
Handle(c) == [k |-> "coro", n |-> c]
Gen(d) == [k |-> "gen", n |-> d]

\* TypeError raised by generator.throw(*value) / generator.send(value)
TypeErr == Exc(0)
UserErrs == {Exc(e) : e \in 1..MaxErr}
PlainVals == {Plain(n) : n \in 1..MaxVal}
ResumeVals == {None_} \cup PlainVals

\* The timeout argument of suspend(): None, a float, or anything else.
NoTimeout == [k |-> "none", n |-> 0]
FloatT(t) == [k |-> "float", n |-> t]
TimeoutArgs == {NoTimeout} \cup {FloatT(t) : t \in 0..MaxSleep} \cup {[k |-> "int", n |-> 1]}

\* fd.timestamp: None (no timeout tracking), the sentinel 0, or a time.
TsNone == [k |-> "none", n |-> 0]
Ts(t) == [k |-> "float", n |-> t]
\* `if fd.timestamp`: neither None nor 0
Truthy(ts) == ts.k = "float" /\ ts.n # 0

\* _AsyncNotifier._Readable, _Writable, _Error
Readable == "r"
Writable == "w"
Error == "e"

\* The asynchronous operations of AsynCoroSocket and the event each waits for.
ReadOps == {"recv", "read", "recvfrom", "accept"}
WriteOps == {"send", "sendto", "write"}
ConnectOps == {"connect"}
Ops == ReadOps \cup WriteOps \cup ConnectOps
EventOf(op) == IF op \in ReadOps THEN Readable ELSE Writable
NoTask == [op |-> "none", coro |-> 0]
NoOs == [fd |-> 0, op |-> "none", out |-> "none", coro |-> 0]

\* What the continuations resume and throw with.
Result(op) == IF op \in {"write", "connect"} THEN Plain(0) ELSE Plain(1)
SockErr == Exc(MaxErr + 1)
TimeoutErr == Exc(MaxErr + 2)
StructErr == Exc(MaxErr + 3)
AssertErr == Exc(MaxErr + 4)

\* Framed messages: struct.pack('>LL', uid, len(data)) + data.  A word is
\* WordLen bytes, most significant first.
WordLen == 4
Reader == 1
MaxWord == Radix ^ WordLen - 1
pack_le(n) == [i \in 1..WordLen |-> (n \div Radix ^ (i - 1)) % Radix]
pack(n) == [i \in 1..WordLen |-> (n \div Radix ^ (WordLen - i)) % Radix]
RECURSIVE unpack(_)
unpack(b) == IF b = <<>> THEN 0 ELSE unpack(SubSeq(b, 1, Len(b) - 1)) * Radix + b[Len(b)]
Frame(uid, data) == pack(uid) \o pack(Len(data)) \o data
ByteSeqs(n) == [1..n -> 0..(Radix - 1)]
Payloads == UNION {ByteSeqs(n) : n \in 1..MaxPayload}
Uids == {0, 1, Radix ^ (WordLen - 1), MaxWord}
Messages == [uid : Uids, data : Payloads]

\* What read and read_msg hand to the coroutine.
Bytes(s) == [k |-> "bytes", n |-> s]
Pair(uid, m) == [k |-> "pair", n |-> <<uid, m>>]
NoneNone == [k |-> "nonepair", n |-> 0]

VARIABLES
  \* AsynCoro
  coros,          \* keys of _coros
  coro_id,        \* AsynCoro._coro_id
  running,        \* _running
  suspended,      \* _suspended
  timeouts,       \* _timeouts
  timeout_cids,   \* _timeout_cids
  terminate,      \* _terminate
  \* Coro, by id
  state,          \* _state (0: not created)
  value,          \* _value
  value_is_exc,   \* _value_is_exc
  stack,          \* _stack: Gen(d) and Handle(c) frames
  generator,      \* _generator: depth of the current generator
  started,        \* whether the current generator has run to its first yield
  \* the scheduler worker
  pc,             \* "idle" | "step" | "dead" (died holding _sched_cv) |
                  \* "exiting" (left the loop, line 632) | "exited"
  todo,           \* the rest of the local list `running`
  cur,            \* the coroutine being stepped (0: none)
  sent,           \* the call made on its generator: [m: send|throw|bad, v]
  sched_cv,       \* the lock of _sched_cv: "free" | "worker" (held by the dead worker)
  \* the threading.Event objects
  complete,       \* AsynCoro._complete
  coro_complete,  \* by id: Coro._complete
  sched_ref,      \* by id: Coro._scheduler is not None
  \* the threads that call terminate(), join() and Coro.value()
  termpc,         \* "none" | "called" (before the acquire) | "set" (_terminate
                  \* is set) | "waiting" (in _complete.wait()) | "returned"
  joiner,         \* "none" | "waiting" | "returned"
  vwait,          \* the coroutine whose value() is being waited for (0: none)
  vret,           \* what value() returned (NoRet: it has not returned)
  \* the clock
  now,
  \* history
  lastWake,       \* by id: the resume/throw accepted since its last step began
  curWake,        \* lastWake of cur when its step began
  sleepUntil,     \* by id: deadline of the sleep it is in (0: none)
  curSleep,       \* sleepUntil of cur when its step began
  wokeAt,         \* by id: deadline whose expiry made it runnable (0: none)
  awaiting,       \* by id: the coroutine whose handle its last step yielded
  runOrder,       \* _running in the order its members entered it
  req,            \* the last _suspend/_resume/_throw that took the lock:
                  \* [op, cid, st: the state it found (0: cid not in _coros)]
  \* what the callers do in this specification; never changes
  scn,            \* [coros, timers, depth, socks: limits; kids: handles are yielded;
                  \*  hist: the history that is recorded]
  \* _AsyncNotifier and the AsynCoroSockets, by fileno
  fds,            \* keys of _fds
  interest,       \* the event mask the poller holds: "unreg" | "0" | "r" | "w"
  timestamp,      \* fd.timestamp
  task,           \* fd.task and fd.coro: [op, coro]
  \* the notifier worker
  npc,            \* "poll" | "dispatch" | "sweep" (holds _lock)
  events,         \* the rest of the list `events`
  event,          \* the variable `event` the list comprehension leaves behind
  nnow,           \* the local `now`
  last_timeout,   \* the local `last_timeout`
  sweepq,         \* the rest of the list `timeouts`
  oscall,         \* history: the last OS call of a continuation
  failed,         \* history: the coroutines that waited when the continuation
                  \* of their connect found an error
  abandoned,      \* history: the sockets whose operation the sweep has timed
                  \* out and on which no operation was started since
  \* one CoroLock and one CoroCondition
  lock_owner,     \* CoroLock._owner (0: None)
  cv_owner,       \* CoroCondition._owner (0: None)
  cv_waitlist,    \* CoroCondition._waitlist
  cv_notify,      \* CoroCondition._notify
  sync,           \* history: the last call on the two: [op, coro, ret]
  awoken,         \* history: the coroutines a notify has taken from the
                  \* waitlist and that have not called wait since
  notified,       \* history: the calls of notify that took a waiter
  returned,       \* history: the calls of wait by such a coroutine that
                  \* returned False
  \* a framed message from a peer to the socket of the coroutine that reads it
  msg,            \* what the peer passes to write_msg: [uid, data]; never changes
  sockType,       \* "stream" | "dgram"; never changes
  wpc,            \* the peer: "start" | "writing" | "done"
  wres,           \* the peer's self.result: the bytes not yet sent
  wire,           \* the chunks sent and not yet received
  eof,            \* the peer has closed the connection
  rpc,            \* where the reading coroutine is (see ReadMsg)
  rneed,          \* bufsize of the async_read in progress
  rres,           \* self.result of the async_read in progress
  rint,           \* the socket is registered for Readable
  info,           \* the locals of read_msg: [uid, msg_len, msg]
  delivered,      \* the call that resumed the caller of read_msg
  shortRead,      \* history: read_msg saw a read deliver too few bytes
  partial         \* history: a send or a recv moved only a part of what was asked

schedVars == <<coros, coro_id, running, suspended, timeouts, timeout_cids, terminate>>
coroVars == <<state, value, value_is_exc, stack, generator, started>>
workerVars == <<pc, todo, cur, sent>>
wakeVars == <<lastWake, curWake, sleepUntil, curSleep, wokeAt, awaiting, runOrder>>
histVars == <<wakeVars, req>>
eventVars == <<complete, coro_complete, sched_ref>>
relVars == <<termpc, joiner, vret>>
callerVars == <<relVars, vwait>>
lifeVars == <<eventVars, callerVars>>
stateVars == <<schedVars, coroVars, workerVars, now, histVars, scn, lifeVars>>
dropVars == <<schedVars, coroVars, workerVars, now, wakeVars, scn, lifeVars>>
coreVars == <<stateVars, sched_cv>>
sockVars == <<fds, interest, timestamp, task>>
notifierVars == <<npc, events, event, nnow, last_timeout, sweepq, oscall, failed, abandoned>>
netVars == <<sockVars, notifierVars>>
cvHist == <<awoken, notified, returned>>
syncVars == <<lock_owner, cv_owner, cv_waitlist, cv_notify, sync, cvHist>>
msgVars == <<msg, sockType, wpc, wres, wire, eof, rpc, rneed, rres, rint, info, delivered, shortRead, partial>>
restVars == <<netVars, syncVars, msgVars>>
vars == <<coreVars, restVars>>

H(k) == k \in scn.hist

NoWake == [op |-> "none", v |-> None_, n |-> 0, t |-> FALSE]
NoCall == [m |-> "none", v |-> None_]

\* ----------------------------------------------------------------- helpers
\* Iteration order of a Python set of small ints (CPython: slot = hash & mask,
\* and hash(i) = i, so ids below the table size come out ascending).
RECURSIVE SetIter(_)
SetIter(S) ==
  IF S = {} THEN <<>>
  ELSE LET m == CHOOSE x \in S : \A y \in S : x <= y
       IN <<m>> \o SetIter(S \ {m})

\* a _suspend that appends its deadline instead of bisecting
bisect_append(a, x) == Len(a)

\* bisect.bisect_left(a, x) for a sorted list: the 0-based insertion point
\* before any entry equal to x.
bisect_left(a, x) == Cardinality({j \in 1..Len(a) : a[j] < x})

\* list.insert(i, x), i 0-based
insert(a, i, x) == SubSeq(a, 1, i) \o <<x>> \o SubSeq(a, i + 1, Len(a))

\* _running as an ordered history
OrderAdd(o, c) ==
  IF ~H("order") \/ \E i \in 1..Len(o) : o[i] = c THEN o ELSE Append(o, c)
OrderDel(o, c) == SelectSeq(o, LAMBDA x : x # c)
RECURSIVE OrderAddAll(_, _)
OrderAddAll(o, s) == IF s = <<>> THEN o ELSE OrderAddAll(OrderAdd(o, Head(s)), Tail(s))

\* ------------------------------------------------------------------- Init
\* Coro.value() has not returned
NoRet == [k |-> "noret", n |-> 0]

\* After line 630, `self._running = self._suspended = set()`, the two
\* attributes name one set.
Aliased == pc \in {"exiting", "exited"}
alias(run, susp) == IF Aliased THEN run ELSE susp

\* threading.Event.set() releases the threads that are blocked in wait();
\* a released thread returns whatever becomes of the flag afterwards.
released(thread, isset) == IF isset /\ thread = "waiting" THEN "returned" ELSE thread

\* self._sched_cv.acquire() and self._sched_cv.release() of a section that
\* runs as one step
acquire == sched_cv = "free"
release == sched_cv' = "free"

\* The request that _suspend, _resume or _throw finds once it holds the lock.
NoReq == [op |-> "none", cid |-> 0, st |-> 0]
Req(op, cid) ==
  IF H("req")
  THEN [op |-> op, cid |-> cid, st |-> IF cid \in coros THEN state[cid] ELSE 0]
  ELSE req

NoSync == [op |-> "none", coro |-> 0, ret |-> "none"]
NoMsg == [uid |-> 0, data |-> <<>>]
NoInfo == [uid |-> 0, msg_len |-> 0, msg |-> <<>>]

\* Nothing of the message is written or read yet.
MsgIdle ==
  /\ wpc = "start"
  /\ wres = <<>>
  /\ wire = <<>>
  /\ eof = FALSE
  /\ rpc = "call"
  /\ rneed = 0
  /\ rres = <<>>
  /\ rint = FALSE
  /\ info = NoInfo
  /\ delivered = NoCall
  /\ shortRead = FALSE
  /\ partial = FALSE

InitCore(s) ==
  /\ scn = s
  /\ coros = {}
  /\ coro_id = 1
  /\ running = {}
  /\ suspended = {}
  /\ timeouts = <<>>
  /\ timeout_cids = <<>>
  /\ terminate = FALSE
  /\ state = [c \in CIDs |-> 0]
  /\ value = [c \in CIDs |-> None_]
  /\ value_is_exc = [c \in CIDs |-> FALSE]
  /\ stack = [c \in CIDs |-> <<>>]
  /\ generator = [c \in CIDs |-> 0]
  /\ started = [c \in CIDs |-> FALSE]
  /\ pc = "idle"
  /\ todo = <<>>
  /\ cur = 0
  /\ sent = NoCall
  /\ sched_cv = "free"
  /\ complete = FALSE
  /\ coro_complete = [c \in CIDs |-> FALSE]
  /\ sched_ref = [c \in CIDs |-> FALSE]
  /\ termpc = "none"
  /\ joiner = "none"
  /\ vwait = 0
  /\ vret = NoRet
  /\ now = 1
  /\ lastWake = [c \in CIDs |-> NoWake]
  /\ curWake = NoWake
  /\ sleepUntil = [c \in CIDs |-> 0]
  /\ curSleep = 0
  /\ wokeAt = [c \in CIDs |-> 0]
  /\ awaiting = [c \in CIDs |-> 0]
  /\ runOrder = <<>>
  /\ req = NoReq
  /\ fds = 1..s.socks
  /\ interest = [f \in Fds |-> IF f <= s.socks THEN "0" ELSE "unreg"]
  /\ timestamp \in [Fds -> {Ts(0), TsNone}]
  /\ \A f \in Fds : f > s.socks => timestamp[f] = TsNone
  /\ task = [f \in Fds |-> NoTask]
  /\ npc = "poll"
  /\ events = <<>>
  /\ event = "unbound"
  /\ nnow = 0
  /\ last_timeout = 1
  /\ sweepq = <<>>
  /\ oscall = NoOs
  /\ failed = {}
  /\ abandoned = {}
  /\ lock_owner = 0
  /\ cv_owner = 0
  /\ cv_waitlist = <<>>
  /\ cv_notify = FALSE
  /\ sync = NoSync
  /\ awoken = {}
  /\ notified = 0
  /\ returned = 0

\* No message is exchanged.
InitWith(s) ==
  /\ InitCore(s)
  /\ msg = NoMsg
  /\ sockType = "stream"
  /\ MsgIdle

\* ------------------------------------------------------------ AsynCoro API
\* AsynCoro._coro_id += 1 (line 526), and the counter left as it is
next_id_same(id) == id
next_id(id) == id + 1

\* Coro.__init__ -> AsynCoro._add
_add ==
  /\ acquire
  /\ coro_id <= scn.coros
  /\ LET c == coro_id IN
     /\ coro_id' = next_id(coro_id)
     /\ coros' = coros \cup {c}
     /\ state' = [state EXCEPT ![c] = Scheduled]
     /\ running' = running \cup {c}
     /\ suspended' = alias(running', suspended)
     /\ runOrder' = OrderAdd(runOrder, c)
     /\ complete' = FALSE
     /\ sched_ref' = [sched_ref EXCEPT ![c] = TRUE]
  /\ UNCHANGED <<timeouts, timeout_cids, terminate>>
  /\ UNCHANGED <<value, value_is_exc, stack, generator, started>>
  /\ UNCHANGED <<workerVars, now, scn, coro_complete, callerVars>>
  /\ release
  /\ UNCHANGED <<lastWake, curWake, sleepUntil, curSleep, wokeAt, awaiting, req>>
  /\ UNCHANGED restVars

\* self._running.discard(cid) in _suspend, and the same line forgotten
suspend_discard_missing(cid) == running
suspend_discard(cid) == running \ {cid}

\* The states in which a request is carried out (lines 546, 568, 593), and
\* _throw carried out for a suspended coroutine as well, _resume for a
\* scheduled one
SuspendStates == {Running}
ResumeStates_wide == {Stopped, Suspended, Scheduled}
ResumeStates == {Stopped, Suspended}
ThrowStates_wide == {Scheduled, Stopped, Suspended}
ThrowStates == {Scheduled, Stopped}

\* A tick is one pass of the worker's loop: the snapshot of _running (line
\* 646) and the steps of its members (line 650).  It is in progress while a
\* member is being stepped or awaits its step.
InTick == pc = "step" \/ todo # <<>>

\* The accepted resume or throw, as recorded; t: it was made during a tick
Wake(op, v) == [op |-> op, v |-> v, n |-> 1, t |-> H("tick") /\ InTick]

\* AsynCoro._suspend
_suspend(cid, timeout) ==
  IF timeout # NoTimeout /\ (timeout.k # "float" \/ timeout.n <= 0)
  THEN UNCHANGED coreVars
  ELSE
    /\ acquire
    /\ release
    /\ req' = Req("suspend", cid)
    /\ IF cid \in coros /\ state[cid] \in SuspendStates
       THEN /\ running' = alias(suspend_discard(cid) \cup {cid}, suspend_discard(cid))
            /\ runOrder' = OrderDel(runOrder, cid)
            /\ state' = [state EXCEPT ![cid] = Suspended]
            /\ suspended' = alias(running', suspended \cup {cid})
            /\ IF timeout # NoTimeout
               THEN /\ Len(timeouts) < scn.timers
                    /\ LET t == now + timeout.n
                           i == bisect_left(timeouts, t)
                       IN /\ timeouts' = insert(timeouts, i, t)
                          /\ timeout_cids' = insert(timeout_cids, i, cid)
                          /\ sleepUntil' = IF H("sleep")
                                           THEN [sleepUntil EXCEPT ![cid] = t]
                                           ELSE sleepUntil
               ELSE UNCHANGED <<timeouts, timeout_cids, sleepUntil>>
            /\ UNCHANGED <<coros, coro_id, terminate>>
            /\ UNCHANGED <<value, value_is_exc, stack, generator, started>>
            /\ UNCHANGED <<workerVars, now, scn, lifeVars>>
            /\ UNCHANGED <<lastWake, curWake, curSleep, wokeAt, awaiting>>
       ELSE UNCHANGED dropVars

\* AsynCoro._resume
_resume(cid, v) ==
  /\ acquire
  /\ release
  /\ req' = Req("resume", cid)
  /\ IF cid \in coros /\ state[cid] \in ResumeStates
     THEN /\ value' = [value EXCEPT ![cid] = v]
          /\ running' = running \cup {cid}
          /\ suspended' = alias(running', suspended \ {cid})
          /\ runOrder' = OrderAdd(runOrder, cid)
          /\ state' = [state EXCEPT ![cid] = Scheduled]
          /\ lastWake' = IF H("wake")
                         THEN [lastWake EXCEPT ![cid] = Wake("resume", v)]
                         ELSE lastWake
          /\ sleepUntil' = [sleepUntil EXCEPT ![cid] = 0]
          /\ UNCHANGED <<coros, coro_id, timeouts, timeout_cids, terminate>>
          /\ UNCHANGED <<value_is_exc, stack, generator, started>>
          /\ UNCHANGED <<workerVars, now, scn, lifeVars>>
          /\ UNCHANGED <<curWake, curSleep, wokeAt, awaiting>>
     ELSE \* dropped with a warning
          /\ lastWake' = IF cid \in coros /\ lastWake[cid].op = "resume"
                         THEN [lastWake EXCEPT ![cid].n = 2]
                         ELSE lastWake
          /\ UNCHANGED <<schedVars, coroVars, workerVars, now, scn, lifeVars>>
          /\ UNCHANGED <<curWake, sleepUntil, curSleep, wokeAt, awaiting, runOrder>>

\* AsynCoro._throw
_throw(cid, e) ==
  /\ acquire
  /\ release
  /\ req' = Req("throw", cid)
  /\ IF cid \in coros /\ state[cid] \in ThrowStates
     THEN /\ value' = [value EXCEPT ![cid] = e]
          /\ value_is_exc' = [value_is_exc EXCEPT ![cid] = TRUE]
          /\ running' = running \cup {cid}
          /\ suspended' = alias(running', suspended \ {cid})
          /\ runOrder' = OrderAdd(runOrder, cid)
          /\ state' = [state EXCEPT ![cid] = Scheduled]
          /\ lastWake' = IF H("wake")
                         THEN [lastWake EXCEPT ![cid] = Wake("throw", e)]
                         ELSE lastWake
          /\ sleepUntil' = [sleepUntil EXCEPT ![cid] = 0]
          /\ UNCHANGED <<coros, coro_id, timeouts, timeout_cids, terminate>>
          /\ UNCHANGED <<stack, generator, started>>
          /\ UNCHANGED <<workerVars, now, scn, lifeVars>>
          /\ UNCHANGED <<curWake, curSleep, wokeAt, awaiting>>
     ELSE UNCHANGED dropVars

\* Coro.suspend / Coro.sleep, Coro.resume, Coro.throw: called by any thread
\* Their test of self._scheduler is made without the lock and only saves the
\* call for a coroutine that is no longer in _coros.
suspend(cid, timeout) == _suspend(cid, timeout) /\ UNCHANGED restVars
resume(cid, v) == _resume(cid, v) /\ UNCHANGED restVars
throw(cid, e) == _throw(cid, e) /\ UNCHANGED restVars

\* time.time() advances
Tick ==
  /\ now <= MaxTime
  /\ now' = now + 1
  /\ UNCHANGED <<schedVars, coroVars, workerVars, histVars, scn, lifeVars, sched_cv>>
  /\ UNCHANGED restVars

\* ------------------------------------------------- the scheduler worker
\* The number of leading entries of _timeouts that the loop
\* `while self._timeouts and self._timeouts[0] <= now` removes.
Expired(ts, t) ==
  CHOOSE i \in 0..Len(ts) :
    /\ \A j \in 1..i : ts[j] <= t
    /\ i < Len(ts) => ts[i + 1] > t

\* The top of the loop of AsynCoro._scheduler, from the acquire to the release
\* before the for loop: the wait, the exit on _terminate, the sweep of the
\* timers and the snapshot of _running.
scheduler_tick ==
  /\ pc = "idle"
  /\ todo = <<>>
  /\ running # {} \/ terminate \/ (timeouts # <<>> /\ timeouts[1] <= now)
  /\ acquire
  /\ release
  /\ UNCHANGED restVars
  /\ UNCHANGED <<complete, coro_complete, callerVars, req>>
  /\ IF terminate
     THEN /\ stack' = [c \in CIDs |->
                         IF c \in (running \cup suspended) \cap coros THEN <<>> ELSE stack[c]]
          /\ running' = {}
          /\ suspended' = {}
          /\ coros' = {}
          /\ sched_ref' = [c \in CIDs |->
                             IF c \in (running \cup suspended) \cap coros
                             THEN FALSE ELSE sched_ref[c]]
          /\ pc' = "exiting"
          /\ runOrder' = <<>>
          /\ lastWake' = [c \in CIDs |-> NoWake]
          /\ sleepUntil' = [c \in CIDs |-> 0]
          /\ wokeAt' = [c \in CIDs |-> 0]
          /\ awaiting' = [c \in CIDs |-> 0]
          /\ UNCHANGED <<coro_id, timeouts, timeout_cids, terminate>>
          /\ UNCHANGED <<state, value, value_is_exc, generator, started>>
          /\ UNCHANGED <<todo, cur, sent, now, curWake, curSleep, scn>>
     ELSE LET k == Expired(timeouts, now)
              woken == {timeout_cids[j] : j \in 1..k} \cap coros
              wokenSeq == SelectSeq(SubSeq(timeout_cids, 1, k), LAMBDA x : x \in coros)
              due(c) == {timeouts[j] : j \in {i \in 1..k : timeout_cids[i] = c}}
              run1 == running \cup woken
          IN /\ suspended' = suspended \ woken
             /\ running' = run1
             /\ state' = [c \in CIDs |-> IF c \in woken THEN Scheduled ELSE state[c]]
             /\ value' = [c \in CIDs |-> IF c \in woken THEN None_ ELSE value[c]]
             /\ timeouts' = SubSeq(timeouts, k + 1, Len(timeouts))
             /\ timeout_cids' = SubSeq(timeout_cids, k + 1, Len(timeout_cids))
             /\ todo' = SetIter(run1 \cap coros)
             /\ runOrder' = OrderAddAll(runOrder, wokenSeq)
             /\ wokeAt' = [c \in CIDs |->
                             IF c \in woken /\ H("sleep")
                             THEN CHOOSE d \in due(c) : \A d2 \in due(c) : d2 <= d
                             ELSE wokeAt[c]]
             /\ UNCHANGED <<coros, coro_id, terminate>>
             /\ UNCHANGED <<value_is_exc, stack, generator, started>>
             /\ lastWake' = [c \in CIDs |-> [lastWake[c] EXCEPT !.t = FALSE]]
             /\ UNCHANGED <<pc, cur, sent, now, scn, sched_ref>>
             /\ UNCHANGED <<curWake, sleepUntil, curSleep, awaiting>>

\* The call the worker makes on the generator of coroutine c (lines 656-660):
\* generator.throw(*value) when _value_is_exc, else generator.send(value).
\* "bad": the call itself raises TypeError and the generator does not run
\* (throw(*value) of a value that is no exception triple; send of a non-None
\* value to a generator that has not started).
Call(c) ==
  IF value_is_exc[c]
  THEN [m |-> IF value[c].k = "exc" THEN "throw" ELSE "bad", v |-> value[c]]
  ELSE [m |-> IF ~started[c] /\ value[c] # None_ THEN "bad" ELSE "send", v |-> value[c]]

\* for coro in running: mark it Running and call its generator
scheduler_step ==
  /\ pc = "idle"
  /\ todo # <<>>
  /\ acquire
  /\ release
  /\ LET c == Head(todo) IN
     /\ state' = [state EXCEPT ![c] = Running]
     /\ pc' = "step"
     /\ cur' = c
     /\ todo' = Tail(todo)
     /\ sent' = Call(c)
     /\ curWake' = lastWake[c]
     /\ lastWake' = [lastWake EXCEPT ![c] = NoWake]
     /\ curSleep' = sleepUntil[c]
     /\ sleepUntil' = [sleepUntil EXCEPT ![c] = 0]
     /\ wokeAt' = [wokeAt EXCEPT ![c] = 0]
  /\ UNCHANGED <<schedVars, now, awaiting, runOrder, req, scn, lifeVars>>
  /\ UNCHANGED <<value, value_is_exc, stack, generator, started>>
  /\ UNCHANGED restVars

\* What the generator of c can do with the call it received.
Yields(c) ==
  {None_} \cup PlainVals
  \cup (IF generator[c] < scn.depth THEN {Gen(generator[c] + 1)} ELSE {})
  \cup (IF scn.kids THEN {Handle(h) : h \in 1..(coro_id - 1)} ELSE {})

Outcomes(c) ==
  IF sent.m = "bad" THEN {[k |-> "raise", v |-> TypeErr]}
  ELSE IF sent.m = "throw" /\ ~started[c] THEN {[k |-> "raise", v |-> sent.v]}
  ELSE {[k |-> "yield", v |-> x] : x \in Yields(c)}
       \cup {[k |-> "stop", v |-> None_]}
       \cup {[k |-> "raise", v |-> e] :
               e \in UserErrs \cup (IF sent.m = "throw" THEN {sent.v} ELSE {})}

\* The worker is back at the for loop.
StepDone ==
  /\ pc' = "idle"
  /\ cur' = 0
  /\ sent' = NoCall
  /\ curWake' = NoWake
  /\ curSleep' = 0
  /\ release

\* The worker thread died with an uncaught exception while it held _sched_cv.
WorkerDies ==
  /\ pc' = "dead"
  /\ sched_cv' = "worker"
  /\ UNCHANGED <<cur, sent, curWake, curSleep>>

\* The back-reference and the events in AsynCoro._delete (lines 582-587);
\* value' is the _value the caller of _delete stored before the call.
delete_events(c) ==
  LET last == coros \ {c} = {} IN
  /\ sched_ref' = [sched_ref EXCEPT ![c] = FALSE]
  /\ coro_complete' = [coro_complete EXCEPT ![c] = TRUE]
  /\ vret' = IF vwait = c /\ vret = NoRet THEN value'[c] ELSE vret
  /\ complete' = (complete \/ last)
  /\ termpc' = released(termpc, last)
  /\ joiner' = released(joiner, last)

\* AsynCoro._delete, called with _sched_cv held
_delete(c) ==
  /\ running' = running \ {c}
  /\ suspended' = suspended \ {c}
  /\ coros' = coros \ {c}
  /\ delete_events(c)
  /\ runOrder' = OrderDel(runOrder, c)
  /\ lastWake' = [lastWake EXCEPT ![c] = NoWake]
  /\ sleepUntil' = [sleepUntil EXCEPT ![c] = 0]
  /\ wokeAt' = [wokeAt EXCEPT ![c] = 0]
  /\ awaiting' = [awaiting EXCEPT ![c] = 0]

\* except: (lines 661-688) the generator raised StopIteration or an error
OnRaise(c, out) ==
  LET v1 == IF out.k = "stop" THEN value[c] ELSE out.v
      f1 == out.k # "stop"
      n == Len(stack[c])
  IN
  /\ value_is_exc' = [value_is_exc EXCEPT ![c] = f1]
  /\ IF n > 0
     THEN LET caller == stack[c][n]
              rest == SubSeq(stack[c], 1, n - 1)
          IN
          IF caller.k = "coro"
          THEN LET p == caller.n IN
               IF rest # <<>> \/ state[p] # Frozen
               THEN \* AssertionError
                    /\ value' = [value EXCEPT ![c] = v1]
                    /\ stack' = [stack EXCEPT ![c] = rest]
                    /\ WorkerDies
                    /\ UNCHANGED <<state, generator, started, eventVars, relVars>>
                    /\ UNCHANGED <<coros, running, suspended, runOrder>>
                    /\ UNCHANGED <<lastWake, sleepUntil, wokeAt, awaiting>>
               ELSE /\ state' = [state EXCEPT ![p] = Running]
                    /\ value' = [value EXCEPT ![c] = v1, ![p] = v1]
                    /\ stack' = [stack EXCEPT ![c] = rest]
                    /\ running' = (running \cup {p}) \ {c}
                    /\ suspended' = suspended \ {c}
                    /\ coros' = coros \ {c}
                    /\ delete_events(c)
                    /\ runOrder' = OrderDel(OrderAdd(runOrder, p), c)
                    /\ lastWake' = [lastWake EXCEPT ![c] = NoWake]
                    /\ sleepUntil' = [sleepUntil EXCEPT ![c] = 0]
                    /\ wokeAt' = [wokeAt EXCEPT ![c] = 0]
                    /\ awaiting' = [awaiting EXCEPT ![c] = 0, ![p] = 0]
                    /\ StepDone
                    /\ UNCHANGED <<generator, started>>
          ELSE /\ value' = [value EXCEPT ![c] = v1]
               /\ stack' = [stack EXCEPT ![c] = rest]
               /\ generator' = [generator EXCEPT ![c] = caller.n]
               /\ started' = [started EXCEPT ![c] = TRUE]
               /\ state' = [state EXCEPT ![c] = Scheduled]
               /\ sleepUntil' = [sleepUntil EXCEPT ![c] = 0]
               /\ StepDone
               /\ UNCHANGED <<coros, running, suspended, runOrder, eventVars, relVars>>
               /\ UNCHANGED <<lastWake, wokeAt, awaiting>>
     ELSE /\ value' = [value EXCEPT ![c] = v1]
          /\ _delete(c)
          /\ StepDone
          /\ UNCHANGED <<state, stack, generator, started>>

\* The state after a yield (lines 691-699), and the same with the coroutine
\* that is still Running left as it is
yield_state_kept(st) == IF st = Suspended THEN Stopped ELSE st
yield_state(st) ==
  IF st = Suspended THEN Stopped
  ELSE IF st = Running THEN Scheduled ELSE st

\* else: (lines 689-714) the generator yielded retval
OnYield(c, retval) ==
  LET s1 == yield_state(state[c])
      v1 == IF state[c] = Running THEN retval ELSE value[c]
  IN
  /\ state' = [state EXCEPT ![c] = s1]
  /\ IF retval.k = "coro"
     THEN \* line 704: AsyncCoro is not defined, NameError
          /\ value' = [value EXCEPT ![c] = v1]
          /\ awaiting' = [awaiting EXCEPT ![c] = retval.n]
          /\ started' = [started EXCEPT ![c] = TRUE]
          /\ WorkerDies
          /\ UNCHANGED <<stack, generator>>
     ELSE IF retval.k = "gen"
     THEN /\ stack' = [stack EXCEPT ![c] = Append(@, Gen(generator[c]))]
          /\ generator' = [generator EXCEPT ![c] = retval.n]
          /\ value' = [value EXCEPT ![c] = None_]
          /\ started' = [started EXCEPT ![c] = FALSE]
          /\ StepDone
          /\ UNCHANGED awaiting
     ELSE /\ value' = [value EXCEPT ![c] = v1]
          /\ started' = [started EXCEPT ![c] = TRUE]
          /\ StepDone
          /\ UNCHANGED <<stack, generator, awaiting>>
  /\ UNCHANGED <<value_is_exc, coros, running, suspended, runOrder, eventVars, relVars>>
  /\ UNCHANGED <<lastWake, sleepUntil, wokeAt>>

\* The generator returns control to the worker (lines 661-714).
scheduler_outcome(out) ==
  /\ pc = "step"
  /\ acquire
  /\ out \in Outcomes(cur)
  /\ IF out.k = "yield" THEN OnYield(cur, out.v) ELSE OnRaise(cur, out)
  /\ UNCHANGED <<coro_id, timeouts, timeout_cids, terminate, todo, now, scn, vwait, req>>
  /\ UNCHANGED restVars

OutcomeSet ==
  {[k |-> "yield", v |-> x] :
     x \in {None_} \cup PlainVals \cup {Gen(d) : d \in 1..MaxDepth} \cup {Handle(h) : h \in CIDs}}
  \cup {[k |-> "stop", v |-> None_]}
  \cup {[k |-> "raise", v |-> e] : e \in UserErrs \cup {TypeErr}}

\* After the loop (line 716): self._complete.set()
scheduler_exit ==
  /\ pc = "exiting"
  /\ pc' = "exited"
  /\ complete' = TRUE
  /\ termpc' = released(termpc, TRUE)
  /\ joiner' = released(joiner, TRUE)
  /\ UNCHANGED <<schedVars, coroVars, todo, cur, sent, now, histVars, scn>>
  /\ UNCHANGED <<coro_complete, sched_ref, vwait, vret, sched_cv>>
  /\ UNCHANGED restVars

\* ------------------------------------- terminate(), join(), Coro.value()
\* AsynCoro.terminate is entered by a thread (line 719, before the acquire).
terminate_call ==
  /\ termpc = "none"
  /\ termpc' = "called"
  /\ UNCHANGED <<schedVars, coroVars, workerVars, now, histVars, scn>>
  /\ UNCHANGED <<eventVars, joiner, vwait, vret>>
  /\ UNCHANGED <<sched_cv, restVars>>

\* lines 720-723: with _sched_cv held, set _terminate and notify
terminate_set ==
  /\ termpc = "called"
  /\ acquire
  /\ terminate' = TRUE
  /\ termpc' = "set"
  /\ UNCHANGED <<coros, coro_id, running, suspended, timeouts, timeout_cids>>
  /\ UNCHANGED <<coroVars, workerVars, now, histVars, scn>>
  /\ UNCHANGED <<eventVars, joiner, vwait, vret>>
  /\ UNCHANGED <<sched_cv, restVars>>

\* line 724: self._complete.wait() tests the flag
terminate_wait ==
  /\ termpc = "set"
  /\ termpc' = IF complete THEN "returned" ELSE "waiting"
  /\ UNCHANGED <<schedVars, coroVars, workerVars, now, histVars, scn>>
  /\ UNCHANGED <<eventVars, joiner, vwait, vret>>
  /\ UNCHANGED <<sched_cv, restVars>>

\* AsynCoro.join: self._complete.wait() tests the flag
join ==
  /\ joiner = "none"
  /\ joiner' = IF complete THEN "returned" ELSE "waiting"
  /\ UNCHANGED <<schedVars, coroVars, workerVars, now, histVars, scn>>
  /\ UNCHANGED <<eventVars, termpc, vwait, vret>>
  /\ UNCHANGED <<sched_cv, restVars>>

\* Coro.value of the coroutine c: self._complete.wait() tests the flag and
\* self._value is returned when it is set
value_call(c) ==
  /\ vwait = 0
  /\ c < coro_id
  /\ vwait' = c
  /\ vret' = IF coro_complete[c] THEN value[c] ELSE NoRet
  /\ UNCHANGED <<schedVars, coroVars, workerVars, now, histVars, scn>>
  /\ UNCHANGED <<eventVars, termpc, joiner>>
  /\ UNCHANGED <<sched_cv, restVars>>

\* ------------------------------------------------ AsynCoroSocket, notifier
\* The body of the generator of cur is running (the call was delivered).
BodyRuns ==
  /\ pc = "step"
  /\ sent.m = "send" \/ (sent.m = "throw" /\ started[cur])

\* The coroutine c has suspended and is not runnable.
Waits(c) == c \in coros /\ state[c] \in {Suspended, Stopped} /\ c \notin running

\* _AsyncNotifier.modify: event 0 resets a tracked timestamp to the sentinel;
\* the poller refuses a descriptor that is not registered (logged).
modify_timestamp(ts, ev) == IF ev = "0" /\ ts # TsNone THEN Ts(0) ELSE ts
modify_interest(i, ev) == IF i = "unreg" THEN i ELSE ev

\* _AsyncNotifier.unregister: the timestamp is cleared only when the poller
\* held the descriptor.
unregister_timestamp(i, ts) == IF i = "unreg" THEN ts ELSE TsNone

\* self.task = functools.partial(_op, ...); self.coro = coro, and the two
\* assignments left out
op_task_lost(op, c) == NoTask
op_task(op, c) == [op |-> op, coro |-> c]

\* sock.recv(...), sock.send(...), ... called by the coroutine cur on socket
\* f: record the continuation and the coroutine, stamp the socket, suspend the
\* coroutine, register the interest.
async_op(f, op) ==
  /\ BodyRuns
  /\ f \in fds
  /\ task' = [task EXCEPT ![f] = op_task(op, cur)]
  /\ timestamp' = [timestamp EXCEPT ![f] =
                     IF op = "accept" THEN TsNone
                     ELSE IF @ # TsNone THEN Ts(now) ELSE @]
  /\ _suspend(cur, NoTimeout)
  /\ interest' = [interest EXCEPT ![f] = modify_interest(@, EventOf(op))]
  /\ abandoned' = abandoned \ {f}
  /\ UNCHANGED <<npc, events, event, nnow, last_timeout, sweepq, oscall, failed>>
  /\ UNCHANGED <<fds, syncVars, msgVars>>

\* AsynCoroSocket.close -> _AsyncNotifier.del_fd (takes the notifier's _lock)
close(f) ==
  /\ BodyRuns
  /\ npc # "sweep"
  /\ f \in fds
  /\ fds' = fds \ {f}
  /\ timestamp' = [timestamp EXCEPT ![f] = unregister_timestamp(interest[f], @)]
  /\ interest' = [interest EXCEPT ![f] = "unreg"]
  /\ UNCHANGED <<task, notifierVars, coreVars, syncVars, msgVars>>

\* What poll() can report for descriptor f under its registered mask.
Ready(f) ==
  CASE interest[f] = "r" -> {Readable, Error}
    [] interest[f] = "w" -> {Writable, Error}
    [] interest[f] = "0" -> {Error}
    [] OTHER -> {}

\* The lists poll() can return: nothing (the poll interval passed), or one or
\* two (fileno, event) pairs of distinct descriptors in any order.
PollOne == UNION {{<<[fd |-> f, ev |-> e]>> : e \in Ready(f)} : f \in Fds}
PollResults ==
  {<<>>} \cup PollOne
  \cup {q[1] \o q[2] : q \in {p \in PollOne \X PollOne : p[1][1].fd # p[2][1].fd}}

\* lines 791-796: poll, take the time, map the filenos to sockets.  In
\* Python 2 the list comprehension leaves `event` bound to the flag of the last
\* pair.
notifier_poll ==
  /\ npc = "poll"
  /\ \E evs \in PollResults :
       /\ events' = [i \in 1..Len(evs) |->
                       [fd |-> IF evs[i].fd \in fds THEN evs[i].fd ELSE 0, ev |-> evs[i].ev]]
       /\ event' = IF evs = <<>> THEN event ELSE evs[Len(evs)].ev
  /\ nnow' = now
  /\ npc' = "dispatch"
  /\ UNCHANGED <<last_timeout, sweepq, oscall, failed, abandoned>>
  /\ UNCHANGED <<sockVars, coreVars, syncVars, msgVars>>

\* What the OS call of a continuation can do.
OsOutcomes(op) ==
  CASE op = "read" -> {"ok", "partial", "zero", "fail"}
    [] op = "write" -> {"ok", "partial", "fail"}
    [] OTHER -> {"ok", "fail"}

\* _connect when SO_ERROR is set: logging.debug only (line 286), and the same
\* branch throwing the error into the coroutine
connect_error_thrown == "throw"
connect_error == "none"

\* What the continuation does then:
\*   "resume"  modify(fd, 0); coro.resume(result)
\*   "throw"   modify(fd, 0); coro.throw(error)        (_read, no progress)
\*   "unreg"   unregister(fd); coro.throw(error)       (_send, _sendto, _write)
\*   "raise"   the exception leaves the continuation   (_recv, _read,
\*             _recvfrom, _accept have no try)
\*   "none"    nothing                                 (partial read or write;
\*             _connect when SO_ERROR is set, logged)
\* The else branch of _recv (result < 0) is never taken: the result is a str.
Continuation(op, out) ==
  CASE out = "ok" -> "resume"
    [] out = "partial" -> "none"
    [] out = "zero" -> "throw"
    [] out = "fail" -> IF op \in WriteOps THEN "unreg"
                       ELSE IF op \in ConnectOps THEN connect_error ELSE "raise"
\* for fd, evnt in events: one pair (lines 798-822).  The branch is chosen by
\* `event`, not by the pair's own flag; an exception that leaves the
\* continuation ends the loop (except: pass).
notifier_dispatch ==
  /\ npc = "dispatch"
  /\ events # <<>>
  /\ LET f == Head(events).fd IN
     IF f = 0 \/ event \notin {Readable, Writable}
     THEN /\ events' = Tail(events)
          /\ oscall' = NoOs
          /\ UNCHANGED <<sockVars, coreVars>>
     ELSE LET ts1 == IF timestamp[f] # TsNone THEN Ts(nnow) ELSE timestamp[f]
              op == task[f].op
              c == task[f].coro
          IN
          IF task[f] = NoTask
          THEN /\ timestamp' = [timestamp EXCEPT ![f] = ts1]
               /\ events' = Tail(events)
               /\ oscall' = NoOs
               /\ UNCHANGED <<fds, interest, task, coreVars>>
          ELSE \E out \in OsOutcomes(op) :
                 LET k == Continuation(op, out) IN
                 /\ oscall' = [fd |-> f, op |-> op, out |-> out, coro |-> c]
                 /\ events' = IF k = "raise" THEN <<>> ELSE Tail(events)
                 /\ timestamp' = [timestamp EXCEPT ![f] =
                                    CASE k \in {"resume", "throw"} -> modify_timestamp(ts1, "0")
                                      [] k = "unreg" -> unregister_timestamp(interest[f], ts1)
                                      [] OTHER -> ts1]
                 /\ interest' = [interest EXCEPT ![f] =
                                   CASE k \in {"resume", "throw"} -> modify_interest(@, "0")
                                     [] k = "unreg" -> "unreg"
                                     [] OTHER -> @]
                 /\ CASE k = "resume" -> _resume(c, Result(op))
                      [] k \in {"throw", "unreg"} -> _throw(c, SockErr)
                      [] OTHER -> UNCHANGED coreVars
                 /\ UNCHANGED <<fds, task>>
  /\ failed' = IF /\ H("conn") /\ oscall'.op = "connect" /\ oscall'.out = "fail"
                  /\ Waits(oscall'.coro)
               THEN failed \cup {oscall'.coro} ELSE failed
  /\ UNCHANGED <<npc, event, nnow, last_timeout, sweepq, abandoned, syncVars, msgVars>>

\* lines 825-829: after the pairs, decide whether to sweep and list the
\* sockets whose timestamp is set and at least _fd_timeout old.
notifier_check ==
  /\ npc = "dispatch"
  /\ events = <<>>
  /\ IF nnow - last_timeout >= FdTimeout
     THEN LET q == SetIter({f \in fds : Truthy(timestamp[f])
                                        /\ nnow - timestamp[f].n >= FdTimeout})
          IN /\ last_timeout' = nnow
             /\ sweepq' = q
             /\ npc' = IF q = <<>> THEN "poll" ELSE "sweep"
     ELSE /\ npc' = "poll"
          /\ UNCHANGED <<last_timeout, sweepq>>
  \* `event` and `now` are assigned again before their next use
  /\ event' = "unbound"
  /\ nnow' = 0
  /\ oscall' = NoOs
  /\ UNCHANGED <<events, failed, abandoned, sockVars, coreVars, syncVars, msgVars>>

\* for fd in timeouts: one socket (lines 831-837), then the release of _lock.
\* A timestamp that became None since the list was made raises TypeError in
\* the message, which ends the loop.
notifier_sweep ==
  /\ npc = "sweep"
  /\ LET f == Head(sweepq)
         c == task[f].coro
     IN
     IF c = 0
     THEN /\ sweepq' = Tail(sweepq)
          /\ npc' = IF Tail(sweepq) = <<>> THEN "poll" ELSE "sweep"
          /\ UNCHANGED <<timestamp, coreVars, abandoned>>
     ELSE IF timestamp[f] = TsNone
     THEN /\ sweepq' = <<>>
          /\ npc' = "poll"
          /\ UNCHANGED <<timestamp, coreVars, abandoned>>
     ELSE /\ timestamp' = [timestamp EXCEPT ![f] = TsNone]
          /\ _throw(c, TimeoutErr)
          /\ abandoned' = IF H("abandon") /\ c \in coros /\ state[c] \in ThrowStates
                          THEN abandoned \cup {f} ELSE abandoned
          /\ sweepq' = Tail(sweepq)
          /\ npc' = IF Tail(sweepq) = <<>> THEN "poll" ELSE "sweep"
  /\ UNCHANGED <<fds, interest, task, events, event, nnow, last_timeout, oscall, failed>>
  /\ UNCHANGED <<syncVars, msgVars>>

\* ------------------------------------------------ CoroLock, CoroCondition
\* The calls are made by the coroutine that is being stepped, which passes
\* itself as `coro`.
Sync(op, c, ret) == [op |-> op, coro |-> c, ret |-> ret]

\* assert self._owner == None (lines 431, 453), and the assertion left out
acquire_ok_any(owner) == TRUE
acquire_ok(owner) == owner = 0

\* assert self._owner == coro._id (lines 435, 457)
release_ok(owner, c) == owner = c

\* CoroLock.acquire
lock_acquire(c) ==
  /\ BodyRuns /\ cur = c
  /\ IF acquire_ok(lock_owner)
     THEN lock_owner' = c /\ sync' = Sync("lock.acquire", c, "ok")
     ELSE UNCHANGED lock_owner /\ sync' = Sync("lock.acquire", c, "assert")
  /\ UNCHANGED <<cv_owner, cv_waitlist, cv_notify, cvHist>>
  /\ UNCHANGED <<coreVars, netVars, msgVars>>

\* CoroLock.release
lock_release(c) ==
  /\ BodyRuns /\ cur = c
  /\ IF release_ok(lock_owner, c)
     THEN lock_owner' = 0 /\ sync' = Sync("lock.release", c, "ok")
     ELSE UNCHANGED lock_owner /\ sync' = Sync("lock.release", c, "assert")
  /\ UNCHANGED <<cv_owner, cv_waitlist, cv_notify, cvHist>>
  /\ UNCHANGED <<coreVars, netVars, msgVars>>

\* CoroCondition.acquire
cv_acquire(c) ==
  /\ BodyRuns /\ cur = c
  /\ IF acquire_ok(cv_owner)
     THEN cv_owner' = c /\ sync' = Sync("cv.acquire", c, "ok")
     ELSE UNCHANGED cv_owner /\ sync' = Sync("cv.acquire", c, "assert")
  /\ UNCHANGED <<lock_owner, cv_waitlist, cv_notify, cvHist>>
  /\ UNCHANGED <<coreVars, netVars, msgVars>>

\* CoroCondition.release
cv_release(c) ==
  /\ BodyRuns /\ cur = c
  /\ IF release_ok(cv_owner, c)
     THEN cv_owner' = 0 /\ sync' = Sync("cv.release", c, "ok")
     ELSE UNCHANGED cv_owner /\ sync' = Sync("cv.release", c, "assert")
  /\ UNCHANGED <<lock_owner, cv_waitlist, cv_notify, cvHist>>
  /\ UNCHANGED <<coreVars, netVars, msgVars>>

\* self._waitlist.pop(0) (line 463), and the last waiter popped instead
pop_last(waitlist) == Len(waitlist)
pop_index(waitlist) == 1

\* CoroCondition.notify, called by any thread
cv_notify_ ==
  /\ cv_notify' = TRUE
  /\ IF Len(cv_waitlist) > 0
     THEN LET i == pop_index(cv_waitlist)
              wake == cv_waitlist[i]
          IN /\ cv_waitlist' = SubSeq(cv_waitlist, 1, i - 1)
                                 \o SubSeq(cv_waitlist, i + 1, Len(cv_waitlist))
             /\ _resume(wake, None_)
             /\ sync' = Sync("notify", wake, "none")
             /\ awoken' = IF H("cv") THEN awoken \cup {wake} ELSE awoken
             /\ notified' = IF H("cv") THEN notified + 1 ELSE notified
     ELSE /\ sync' = Sync("notify", 0, "none")
          /\ UNCHANGED <<cv_waitlist, coreVars, awoken, notified>>
  /\ UNCHANGED <<lock_owner, cv_owner, returned>>
  /\ UNCHANGED <<netVars, msgVars>>

\* CoroCondition.wait, called by a coroutine that has not suspended itself
\* in this step (after a wait that returns True the caller yields)
cv_wait(c) ==
  /\ BodyRuns /\ cur = c
  /\ state[c] = Running
  /\ IF ~cv_notify
     THEN /\ cv_owner' = 0
          /\ cv_waitlist' = Append(cv_waitlist, c)
          /\ _suspend(c, NoTimeout)
          /\ sync' = Sync("wait", c, "true")
          /\ UNCHANGED <<cv_notify, returned>>
     ELSE /\ cv_notify' = FALSE
          /\ cv_owner' = c
          /\ sync' = Sync("wait", c, "false")
          /\ returned' = IF c \in awoken THEN returned + 1 ELSE returned
          /\ UNCHANGED <<cv_waitlist, coreVars>>
  /\ awoken' = awoken \ {c}
  /\ UNCHANGED <<lock_owner, notified>>
  /\ UNCHANGED <<netVars, msgVars>>

\* The callers of one condition that keep to its protocol (see the comment
\* of line 467).  Coroutines call wait before the first notify:
wait_first(c) ==
  /\ notified = 0
  /\ cv_wait(c)

\* notify is called while a coroutine is in the waitlist:
notify_waiter ==
  /\ cv_waitlist # <<>>
  /\ notified < MaxNotify
  /\ cv_notify_

\* the coroutine that a notify has resumed calls wait again when it is
\* stepped, and no other coroutine calls wait:
wait_again(c) ==
  /\ c \in awoken
  /\ cv_wait(c)

\* and its step does not end before that call; the step in which wait returned
\* True ends with a yield, whether or not a notify has resumed the coroutine
\* in between.
wait_outcome(out) ==
  /\ ~(cur \in awoken /\ state[cur] = Running)
  /\ (cur \in awoken \/ \E i \in 1..Len(cv_waitlist) : cv_waitlist[i] = cur) => out.k = "yield"
  /\ scheduler_outcome(out)

\* ------------------------------------------------------- framed messages
\* The peer calls write_msg(uid, data) on a socket without auth code:
\* self.write(struct.pack('>LL', uid, len(data)) + data) (lines 340, 228).
async_write_msg ==
  /\ wpc = "start"
  /\ ~eof
  /\ wres' = Frame(msg.uid, msg.data)
  /\ wpc' = "writing"
  /\ UNCHANGED <<msg, sockType, wire, eof, rpc, rneed, rres, rint, info, delivered, shortRead, partial>>
  /\ UNCHANGED <<coreVars, netVars, syncVars>>

Flat(w) == IF w = <<>> THEN <<>> ELSE Head(w)

\* _write (lines 229-243): sock.send takes the first n bytes, the rest stays
\* in self.result.  On a stream the bytes join those in flight; on a
\* datagram socket what one send takes is one datagram.
_write(n) ==
  /\ wpc = "writing"
  /\ ~eof
  /\ n \in 1..Len(wres)
  /\ wire' = IF sockType = "stream"
             THEN <<Flat(wire) \o SubSeq(wres, 1, n)>>
             ELSE Append(wire, SubSeq(wres, 1, n))
  /\ wres' = SubSeq(wres, n + 1, Len(wres))
  /\ wpc' = IF n = Len(wres) THEN "done" ELSE "writing"
  /\ partial' = (partial \/ n < Len(wres))
  /\ UNCHANGED <<msg, sockType, eof, rpc, rneed, rres, rint, info, delivered, shortRead>>
  /\ UNCHANGED <<coreVars, netVars, syncVars>>

\* The peer closes a stream connection.
peer_close ==
  /\ sockType = "stream"
  /\ ~eof
  /\ eof' = TRUE
  /\ UNCHANGED <<msg, sockType, wpc, wres, wire, rpc, rneed, rres, rint, info, delivered, shortRead, partial>>
  /\ UNCHANGED <<coreVars, netVars, syncVars>>

\* self.read(n, coro=coro) called by read_msg (lines 302-303, 309): empty
\* self.result, set the continuation, suspend the coroutine, ask for Readable
\* (lines 124-144).  The second call follows the unpacking of a full header
\* with msg_len > 0.
async_read ==
  /\ BodyRuns
  /\ cur = Reader
  /\ sent.m = "send"
  /\ \/ /\ rpc = "init"
        /\ rneed' = 2 * WordLen
        /\ rpc' = "hdr_read"
        /\ UNCHANGED info
     \/ /\ rpc = "hdr"
        /\ sent.v.k = "bytes"
        /\ Len(sent.v.n) >= 2 * WordLen
        /\ LET uid == unpack(SubSeq(sent.v.n, 1, WordLen))
               msg_len == unpack(SubSeq(sent.v.n, WordLen + 1, 2 * WordLen))
           IN /\ msg_len > 0
              /\ info' = [uid |-> uid, msg_len |-> msg_len, msg |-> <<>>]
              /\ rneed' = msg_len
        /\ rpc' = "body_read"
  /\ rres' = <<>>
  /\ rint' = TRUE
  /\ _suspend(cur, NoTimeout)
  /\ UNCHANGED <<msg, sockType, wpc, wres, wire, eof, delivered, shortRead, partial>>
  /\ UNCHANGED <<netVars, syncVars>>

\* What the coroutine that reads does when the worker's call reaches it at
\* rp: the outcome of the call, the place it is at afterwards, and whether
\* read_msg saw a short read.
\*   "call"       the caller's generator is at `yield sock.read_msg(coro)`
\*   "init"       read_msg has not started
\*   "hdr_read"   read(info_len) is called (line 303), the yield follows
\*   "hdr"        at `info = yield ...` (line 303)
\*   "hdr_short"  at `yield (None, None)` (line 306)
\*   "body_read"  read(msg_len) is called (line 309), the yield follows
\*   "body"       at `msg = yield ...` (line 309)
\*   "body_short" at `yield (None, None)` (line 312)
\*   "last"       at `yield (uid, msg)` (line 313)
\*   "caller"     read_msg is over, the caller's generator is called
\*   "done"       the caller has its answer
ReadMsg(rp, s) ==
  LET yield(v, to, short) == [out |-> [k |-> "yield", v |-> v], rpc |-> to, short |-> short]
      raise(e) == [out |-> [k |-> "raise", v |-> e], rpc |-> "caller", short |-> FALSE]
      stop(to) == [out |-> [k |-> "stop", v |-> None_], rpc |-> to, short |-> FALSE]
  IN
  CASE rp = "call" -> yield(Gen(1), "init", FALSE)
    [] rp = "hdr_read" -> yield(None_, "hdr", FALSE)
    [] rp = "body_read" -> yield(None_, "body", FALSE)
    [] rp = "caller" -> stop("done")
    [] OTHER ->
         IF s.m = "throw" THEN raise(s.v)              \* except: ... raise
         ELSE IF s.m = "bad" \/ (rp \in {"hdr", "body"} /\ s.v.k # "bytes")
         THEN raise(TypeErr)
         ELSE CASE rp = "hdr" ->
                     IF Len(s.v.n) < 2 * WordLen
                     THEN yield(NoneNone, "hdr_short", TRUE)
                     ELSE raise(AssertErr)              \* assert msg_len > 0
                [] rp = "hdr_short" -> raise(StructErr) \* struct.unpack of a short info
                [] rp = "body" ->
                     IF Len(s.v.n) < info.msg_len
                     THEN yield(NoneNone, "body_short", TRUE)
                     ELSE yield(Pair(info.uid, s.v.n), "last", FALSE)
                [] rp = "body_short" -> yield(Pair(info.uid, info.msg), "last", FALSE)
                [] rp = "last" -> stop("caller")

\* The generator of the reading coroutine returns control to the worker
\* (lines 300-316 under lines 661-714).
async_read_msg ==
  /\ pc = "step"
  /\ cur = Reader
  /\ acquire
  /\ rpc \notin {"init", "done"}
  /\ ~(rpc = "hdr" /\ ENABLED async_read)
  /\ LET r == ReadMsg(rpc, sent) IN
     /\ IF r.out.k = "yield" THEN OnYield(cur, r.out.v) ELSE OnRaise(cur, r.out)
     /\ rpc' = r.rpc
     /\ shortRead' = (shortRead \/ r.short)
     /\ info' = IF rpc = "body" /\ sent.m = "send" /\ sent.v.k = "bytes"
                THEN [info EXCEPT !.msg = sent.v.n] ELSE info
     /\ delivered' = IF rpc = "caller" THEN sent ELSE delivered
  /\ UNCHANGED <<coro_id, timeouts, timeout_cids, terminate, todo, now, scn, vwait, req>>
  /\ UNCHANGED <<msg, sockType, wpc, wres, wire, eof, rneed, rres, rint, partial>>
  /\ UNCHANGED <<netVars, syncVars>>

\* What sock.recv(max) returns: on a stream any non-empty prefix of the bytes
\* in flight of at most max bytes, or '' when the peer has closed and nothing
\* is in flight; on a datagram socket the first datagram, cut to max bytes.
Recv(max) ==
  IF wire = <<>> THEN {<<>>}
  ELSE IF sockType = "stream"
  THEN {SubSeq(Head(wire), 1, k) : k \in 1..(IF max < Len(Head(wire)) THEN max ELSE Len(Head(wire)))}
  ELSE {SubSeq(Head(wire), 1, IF max < Len(Head(wire)) THEN max ELSE Len(Head(wire)))}

\* _read (lines 126-137), run by the notifier when the socket is readable
_read ==
  /\ rint
  /\ wire # <<>> \/ eof
  /\ \E got \in Recv(rneed - Len(rres)) :
       LET res == rres \o got IN
       /\ wire' = IF wire = <<>> THEN wire
                  ELSE IF sockType = "stream" /\ Len(got) < Len(Head(wire))
                  THEN <<SubSeq(Head(wire), Len(got) + 1, Len(Head(wire)))>>
                  ELSE Tail(wire)
       /\ IF Len(res) = rneed \/ sockType = "dgram"
          THEN /\ rint' = FALSE
               /\ rres' = res
               /\ _resume(Reader, Bytes(res))
               /\ UNCHANGED partial
          ELSE IF Len(res) = Len(rres)
          THEN /\ rint' = FALSE
               /\ rres' = <<>>
               /\ _throw(Reader, SockErr)
               /\ UNCHANGED partial
          ELSE /\ rres' = res
               /\ partial' = TRUE
               /\ UNCHANGED <<rint, coreVars>>
  /\ UNCHANGED <<msg, sockType, wpc, wres, eof, rpc, rneed, info, delivered, shortRead>>
  /\ UNCHANGED <<netVars, syncVars>>

\* ------------------------------------------------------------------- Spec
Next ==
  \/ _add
  \/ \E cid \in CIDs, timeout \in TimeoutArgs : suspend(cid, timeout)
  \/ \E cid \in CIDs, v \in ResumeVals : resume(cid, v)
  \/ \E cid \in CIDs, e \in UserErrs : throw(cid, e)
  \/ Tick
  \/ scheduler_tick
  \/ scheduler_step
  \/ \E out \in OutcomeSet : scheduler_outcome(out)

\* Everything the scheduler does, no history recorded.
Init == InitWith([coros |-> MaxCoros, timers |-> MaxTimers, depth |-> MaxDepth, socks |-> 0, kids |-> TRUE, hist |-> {}])
Spec == Init /\ [][Next]_vars

\* Resume and Throw against the steps: no sleeps, no sub-generators; the
\* accepted resume/throw of each coroutine is recorded.
NextWake ==
  \/ _add
  \/ \E cid \in CIDs : suspend(cid, NoTimeout)
  \/ \E cid \in CIDs, v \in ResumeVals : resume(cid, v)
  \/ \E cid \in CIDs, e \in UserErrs : throw(cid, e)
  \/ scheduler_tick
  \/ scheduler_step
  \/ \E out \in OutcomeSet : scheduler_outcome(out)

InitWake == InitWith([coros |-> MaxCoros, timers |-> 0, depth |-> 0, socks |-> 0, kids |-> TRUE, hist |-> {"wake"}])
SpecWake == InitWake /\ [][NextWake]_vars

\* Sleeps: timers and the clock, no sub-generators; the deadline of each sleep
\* and the order of entry into _running are recorded.
InitSleep ==
  InitWith([coros |-> MaxCoros, timers |-> SleepTimers, depth |-> 0, socks |-> 0, kids |-> TRUE,
            hist |-> {"sleep", "order"}])
SpecSleep == InitSleep /\ [][Next]_vars

\* A scheduler that is terminated and joined, and coroutines whose value is
\* waited for.
NextLife ==
  \/ _add
  \/ \E c \in CIDs : suspend(c, NoTimeout)
  \/ \E c \in CIDs, v \in ResumeVals : resume(c, v)
  \/ scheduler_tick
  \/ scheduler_step
  \/ \E out \in OutcomeSet : scheduler_outcome(out)
  \/ scheduler_exit
  \/ terminate_call
  \/ terminate_set
  \/ terminate_wait
  \/ join
  \/ \E c \in CIDs : value_call(c)

InitLife == InitWith([coros |-> MaxCoros, timers |-> 0, depth |-> 0, socks |-> 0, kids |-> TRUE, hist |-> {}])
SpecLife == InitLife /\ [][NextLife]_vars

\* The worker is a thread of its own and a generator that is called returns
\* control; the thread inside terminate() runs on when it can take the lock.
FairLife ==
  /\ WF_vars(scheduler_tick)
  /\ WF_vars(scheduler_step)
  /\ WF_vars(\E out \in OutcomeSet : scheduler_outcome(out))
  /\ WF_vars(scheduler_exit)
  /\ WF_vars(terminate_set)
  /\ WF_vars(terminate_wait)
SpecLifeFair == InitLife /\ [][NextLife]_vars /\ FairLife

\* Resume and Throw against the ticks: as SpecWake, and every accepted resume
\* or throw is recorded with whether a tick was in progress.
InitTick == InitWith([coros |-> MaxCoros, timers |-> 0, depth |-> 0, socks |-> 0, kids |-> FALSE, hist |-> {"wake", "tick"}])
SpecTick == InitTick /\ [][NextWake]_vars

\* Sub-generators: one coroutine that delegates, suspends and is resumed;
\* nobody throws and no coroutine handle is yielded.
NextGen ==
  \/ _add
  \/ \E cid \in CIDs : suspend(cid, NoTimeout)
  \/ \E cid \in CIDs, v \in ResumeVals : resume(cid, v)
  \/ scheduler_tick
  \/ scheduler_step
  \/ \E out \in OutcomeSet : scheduler_outcome(out)

InitGen == InitWith([coros |-> MaxCoros, timers |-> 0, depth |-> MaxDepth, socks |-> 0, kids |-> FALSE, hist |-> {}])
SpecGen == InitGen /\ [][NextGen]_vars

\* Requests of every kind against a coroutine in every state and against an
\* identifier that names no coroutine; the last request that took the lock
\* is recorded.
InitReq == InitWith([coros |-> ReqCoros, timers |-> MaxTimers, depth |-> 0, socks |-> 0, kids |-> FALSE, hist |-> {"req"}])
SpecReq == InitReq /\ [][Next]_vars

\* Coroutines that wait on and notify one condition.
NextSync ==
  \/ _add
  \/ scheduler_tick
  \/ scheduler_step
  \/ \E out \in OutcomeSet : scheduler_outcome(out)
  \/ cv_notify_
  \/ \E c \in CIDs : cv_wait(c)

InitSync == InitWith([coros |-> MaxCoros, timers |-> 0, depth |-> 0, socks |-> 0, kids |-> FALSE, hist |-> {}])
SpecSync == InitSync /\ [][NextSync]_vars

\* Coroutines that wait on one condition and are notified, all keeping to
\* the protocol of the condition; the notifications and the waits that return
\* False are counted.
NextCond ==
  \/ _add
  \/ scheduler_tick
  \/ scheduler_step
  \/ \E out \in OutcomeSet : wait_outcome(out)
  \/ notify_waiter
  \/ \E c \in CIDs : wait_first(c)
  \/ \E c \in CIDs : wait_again(c)

InitCond == InitWith([coros |-> MaxCoros, timers |-> 0, depth |-> 0, socks |-> 0, kids |-> FALSE, hist |-> {"cv"}])

\* The worker is a thread of its own, a generator that is stepped returns
\* control, and a resumed waiter calls wait in the step that follows.
FairCond ==
  /\ WF_vars(scheduler_tick)
  /\ WF_vars(scheduler_step)
  /\ WF_vars(\E out \in OutcomeSet : wait_outcome(out))
  /\ \A c \in CIDs : WF_vars(wait_again(c))
SpecCondFair == InitCond /\ [][NextCond]_vars /\ FairCond

\* Coroutines that acquire and release one lock and one condition.
NextLock ==
  \/ _add
  \/ scheduler_tick
  \/ scheduler_step
  \/ \E out \in OutcomeSet : scheduler_outcome(out)
  \/ \E c \in CIDs : lock_acquire(c)
  \/ \E c \in CIDs : lock_release(c)
  \/ \E c \in CIDs : cv_acquire(c)
  \/ \E c \in CIDs : cv_release(c)

SpecLock == InitSync /\ [][NextLock]_vars

\* One coroutine that reads one framed message from its peer.
NextMsg ==
  \/ _add
  \/ scheduler_tick
  \/ scheduler_step
  \/ async_write_msg
  \/ \E n \in 1..(2 * WordLen + MaxPayload) : _write(n)
  \/ peer_close
  \/ async_read
  \/ async_read_msg
  \/ _read

InitMsg ==
  /\ InitCore([coros |-> 1, timers |-> 0, depth |-> 1, socks |-> 0, kids |-> FALSE, hist |-> {}])
  /\ msg \in Messages
  /\ sockType \in {"stream", "dgram"}
  /\ MsgIdle
SpecMsg == InitMsg /\ [][NextMsg]_vars

\* Sockets: coroutines that wait on asynchronous socket operations, the
\* notifier worker and the clock; no sleeps, no sub-generators, no children.
NextNet ==
  \/ _add
  \/ \E f \in Fds, op \in Ops : async_op(f, op)
  \/ \E f \in Fds : close(f)
  \/ Tick
  \/ scheduler_tick
  \/ scheduler_step
  \/ \E out \in OutcomeSet : scheduler_outcome(out)
  \/ notifier_poll
  \/ notifier_dispatch
  \/ notifier_check
  \/ notifier_sweep

InitNet ==
  InitWith([coros |-> NetCoros, timers |-> 0, depth |-> 0, socks |-> NetSocks, kids |-> FALSE,
            hist |-> {}])
SpecNet == InitNet /\ [][NextNet]_vars

\* Two sockets under one poll: a coroutine that waits on socket operations
\* and the notifier worker; the clock stands still, so nothing is swept.
PollOps == {"recv", "send"}

NextPoll ==
  \/ _add
  \/ \E f \in Fds, op \in PollOps : async_op(f, op)
  \/ scheduler_tick
  \/ scheduler_step
  \/ \E out \in OutcomeSet : scheduler_outcome(out)
  \/ notifier_poll
  \/ notifier_dispatch
  \/ notifier_check

InitPoll ==
  InitWith([coros |-> NetCoros, timers |-> 0, depth |-> 0, socks |-> MaxFds, kids |-> FALSE,
            hist |-> {}])
SpecPoll == InitPoll /\ [][NextPoll]_vars

\* Connects: a coroutine that waits for connections to be made, the notifier
\* worker and the clock.
NextConn ==
  \/ _add
  \/ \E f \in Fds : async_op(f, "connect")
  \/ Tick
  \/ scheduler_tick
  \/ scheduler_step
  \/ \E out \in OutcomeSet : scheduler_outcome(out)
  \/ notifier_poll
  \/ notifier_dispatch
  \/ notifier_check
  \/ notifier_sweep

InitConn ==
  InitWith([coros |-> NetCoros, timers |-> 0, depth |-> 0, socks |-> NetSocks, kids |-> FALSE,
            hist |-> {"conn"}])
SpecConn == InitConn /\ [][NextConn]_vars

\* Timed-out operations: a coroutine that receives on a socket and suspends
\* itself otherwise, the notifier worker and the clock.
NextAbandon ==
  \/ _add
  \/ \E f \in Fds : async_op(f, "recv")
  \/ \E c \in CIDs : suspend(c, NoTimeout)
  \/ Tick
  \/ scheduler_tick
  \/ scheduler_step
  \/ \E out \in OutcomeSet : scheduler_outcome(out)
  \/ notifier_poll
  \/ notifier_dispatch
  \/ notifier_check
  \/ notifier_sweep

InitAbandon ==
  InitWith([coros |-> NetCoros, timers |-> 0, depth |-> 0, socks |-> NetSocks, kids |-> FALSE,
            hist |-> {"abandon"}])
SpecAbandon == InitAbandon /\ [][NextAbandon]_vars

\* ----------------------------------------------------------------- claims
Pos(o, c) == CHOOSE i \in 1..Len(o) : o[i] = c
Range(q) == {q[i] : i \in 1..Len(q)}

\* The worker is not in the middle of a step: it is between steps, has left
\* its loop, or has died.
TickBoundary == pc \in {"idle", "exited", "dead"}

\* C4: at every tick boundary _running and _suspended are disjoint, every
\* live coroutine that is not Frozen is in exactly one of them, and no Frozen
\* coroutine is in either.
C4_Membership ==
  TickBoundary =>
    /\ running \cap suspended = {}
    /\ \A c \in coros :
         IF state[c] = Frozen
         THEN c \notin running \cup suspended
         ELSE (c \in running) # (c \in suspended)

\* C4 witness: a tick boundary with one live coroutine suspended (it has
\* yielded) and another runnable.
C4_Witness ==
  /\ pc = "idle" /\ todo = <<>>
  /\ \E c, d \in coros :
       /\ c \in suspended /\ state[c] = Stopped
       /\ d \in running /\ state[d] = Scheduled


\* C1: a Resume(id, v) accepted after suspend() and before the next step of
\* the coroutine (state Suspended or Stopped) is honoured: until that step the
\* coroutine is Scheduled, in _running, with v pending, and the step sends v.
C1_ResumeHonoured ==
  /\ \A c \in coros :
       lastWake[c].op = "resume" =>
         /\ state[c] = Scheduled
         /\ c \in running
         /\ value[c] = lastWake[c].v
  /\ (pc = "step" /\ curWake.op = "resume") =>
       sent = [m |-> "send", v |-> curWake.v]

\* C2: of two Resume calls with no step in between the first one wins: the
\* coroutine is Scheduled, in _running, with the first value pending, and its
\* next step sends that value.
C2_ResumeOnce ==
  /\ \A c \in coros :
       (lastWake[c].op = "resume" /\ lastWake[c].n = 2) =>
         /\ state[c] = Scheduled
         /\ c \in running
         /\ value[c] = lastWake[c].v
  /\ (pc = "step" /\ curWake.op = "resume" /\ curWake.n = 2) =>
       sent = [m |-> "send", v |-> curWake.v]

\* C3: an accepted Throw(id, err) leaves err pending and marked as an error,
\* the coroutine Scheduled and in _running; its next step injects err; and a
\* step that no Throw preceded sends a value.
C3_ThrowOnce ==
  /\ \A c \in coros :
       lastWake[c].op = "throw" =>
         /\ state[c] = Scheduled
         /\ c \in running
         /\ value[c] = lastWake[c].v
         /\ value_is_exc[c]
  /\ (pc = "step" /\ curWake.op = "throw") =>
       sent = [m |-> "throw", v |-> curWake.v]
  /\ (pc = "step" /\ curWake.op # "throw") => sent.m = "send"

\* C5: a coroutine whose step yielded the handle of a live child is Frozen
\* and out of _running, and the worker goes on to step the child.
C5_ChildReturn ==
  \A p \in CIDs :
    (p \in coros /\ awaiting[p] \in coros \ {p}) =>
      /\ state[p] = Frozen
      /\ p \notin running
      /\ pc # "dead"

\* C6: the error a child ends with goes to the parent that waits for it: a
\* live child whose handle a parent has yielded has that parent as the
\* bottom frame of its stack.
C6_ChildError ==
  \A p \in CIDs :
    (p \in coros /\ awaiting[p] \in coros \ {p}) =>
      /\ stack[awaiting[p]] # <<>>
      /\ stack[awaiting[p]][1] = Handle(p)

\* C7: when the OS call of the continuation of a socket fails while the
\* coroutine of that operation waits (it has yielded: Stopped, suspended), the
\* descriptor is unregistered and the error is thrown into the coroutine,
\* which is runnable with the error pending.
C7_OsFailure ==
  [][(/\ npc = "dispatch" /\ events # <<>> /\ events' # events
      /\ oscall'.out = "fail"
      /\ oscall'.op \in ReadOps \cup WriteOps
      /\ oscall'.coro \in coros
      /\ state[oscall'.coro] = Stopped
      /\ oscall'.coro \in suspended)
     => /\ interest'[oscall'.fd] = "unreg"
        /\ state'[oscall'.coro] = Scheduled
        /\ oscall'.coro \in running'
        /\ value'[oscall'.coro] = SockErr
        /\ value_is_exc'[oscall'.coro]]_vars

\* C8: the sweep, at a socket whose timestamp is set and _fd_timeout or more
\* old and whose coroutine waits on it, clears the timestamp and throws the
\* timeout into the coroutine, which is runnable with the error pending; the
\* map and the registrations stay as they are; and only sockets with such a
\* timestamp are swept.
C8_InactivitySweep ==
  [][/\ (npc = "sweep" /\ sweepq' # sweepq) =>
          LET f == Head(sweepq)
              c == task[f].coro
          IN (/\ c \in coros
              /\ state[c] \in {Suspended, Stopped}
              /\ Truthy(timestamp[f])
              /\ last_timeout - timestamp[f].n >= FdTimeout)
             => /\ timestamp'[f] = TsNone
                /\ state'[c] = Scheduled
                /\ c \in running'
                /\ value'[c] = TimeoutErr
                /\ value_is_exc'[c]
                /\ fds' = fds
                /\ interest' = interest
     /\ (npc = "dispatch" /\ npc' = "sweep") =>
          \A f \in Range(sweepq') :
            Truthy(timestamp[f]) /\ last_timeout' - timestamp[f].n >= FdTimeout]_vars

\* C9: a coroutine that called sleep(t), yielded and was neither resumed nor
\* thrown into is not stepped before its deadline, and that step sends None.
C9_Sleep ==
  (pc = "step" /\ curSleep # 0) =>
    /\ now >= curSleep
    /\ sent = [m |-> "send", v |-> None_]

\* C10 as stated: the coroutine the worker steps next entered _running
\* before every other coroutine left in the snapshot of this tick.
C10_InsertionOrder ==
  [][(pc = "idle" /\ pc' = "step") =>
       \A d \in Range(Tail(todo)) : Pos(runOrder, Head(todo)) < Pos(runOrder, d)]_vars

\* C10 as amended: _timeouts is sorted and aligned with _timeout_cids; a timer
\* wakes its coroutine no earlier than its deadline; while a coroutine woken
\* by a timer waits for its step, every entry still in _timeouts has a
\* strictly later deadline; and the snapshot of a tick is stepped in the
\* iteration order of the set (ascending id), whatever the order of entry.
C10_DeadlineOrder ==
  /\ Len(timeouts) = Len(timeout_cids)
  /\ \A i, j \in 1..Len(timeouts) : i < j => timeouts[i] <= timeouts[j]
  /\ \A c \in CIDs :
       wokeAt[c] # 0 =>
         /\ wokeAt[c] <= now
         /\ \A i \in 1..Len(timeouts) : timeouts[i] > wokeAt[c]
  /\ \A i, j \in 1..Len(todo) : i < j => todo[i] < todo[j]

\* C10 witness: two sleepers with different deadlines woken in one tick and
\* both waiting for their step.
C10_Witness ==
  \E c, d \in coros :
    /\ wokeAt[c] # 0 /\ wokeAt[d] # 0 /\ wokeAt[c] < wokeAt[d]
    /\ todo = <<c, d>> \/ todo = <<d, c>>

\* C11: once terminate() has been called the worker eventually exits; the
\* step that leaves the loop empties _coros, _running and _suspended and
\* leaves every coroutine that was live with an empty stack and no scheduler;
\* the exit releases the caller of terminate() and the joiners that wait.
C11_Terminate ==
  /\ (termpc # "none") ~> (pc = "exited")
  /\ [][(pc = "idle" /\ pc' = "exiting") =>
          /\ coros' = {} /\ running' = {} /\ suspended' = {}
          /\ \A c \in coros : stack'[c] = <<>> /\ ~sched_ref'[c]]_vars
  /\ [][(pc = "exiting" /\ pc' = "exited") =>
          /\ termpc = "waiting" => termpc' = "returned"
          /\ joiner = "waiting" => joiner' = "returned"]_vars

\* C12: a thread is blocked in join() only while _coros is non-empty (the
\* worker between its last two lines apart), and join() returns only when
\* _coros is empty.
C12_Join ==
  [][/\ (joiner' = "waiting" /\ pc' # "exiting") => coros' # {}
     /\ (joiner # "returned" /\ joiner' = "returned") => coros' = {}]_vars

\* C13: value() does not return while its coroutine is in _coros, and a
\* thread inside value() of a coroutine that is no longer in _coros (it
\* finished, or the scheduler was terminated) eventually returns.
C13_Value ==
  /\ [](vret # NoRet => vwait \notin coros)
  /\ (vwait # 0 /\ vwait \notin coros) ~> (vret # NoRet)

\* C14: a _suspend that finds its coroutine not Running, a _resume that finds
\* it neither Suspended nor Stopped, a _throw that finds it neither Scheduled
\* nor Stopped, and any of them that finds no coroutine of that id, leaves
\* _coros, _running, _suspended, the timer lists and every state, value and
\* error flag as they were, and leaves the lock free.
C14_Kept ==
  /\ UNCHANGED <<coros, running, suspended, timeouts, timeout_cids>>
  /\ UNCHANGED <<state, value, value_is_exc>>
  /\ sched_cv' = "free"
C14_Dropped ==
  [][\A c \in CIDs :
       /\ ((\E t \in TimeoutArgs : suspend(c, t))
             /\ ~(c \in coros /\ state[c] = Running)) => C14_Kept
       /\ ((\E v \in ResumeVals : resume(c, v))
             /\ ~(c \in coros /\ state[c] \in {Suspended, Stopped})) => C14_Kept
       /\ ((\E e \in UserErrs : throw(c, e))
             /\ ~(c \in coros /\ state[c] \in {Scheduled, Stopped})) => C14_Kept]_vars

\* C14 witness: the last request was a _throw that found its coroutine
\* Suspended, and the coroutine is Suspended still.
C14_Witness ==
  \E c \in coros :
    /\ req = [op |-> "throw", cid |-> c, st |-> Suspended]
    /\ state[c] = Suspended /\ c \in suspended /\ ~value_is_exc[c]

\* C15: at most one coroutine of _coros is Running, and it is the one the
\* worker is stepping: none is Running while the worker is between two steps,
\* at the top of its loop, or gone.
C15_OneRunning ==
  /\ Cardinality({c \in coros : state[c] = Running}) <= 1
  /\ \A c \in coros : state[c] = Running => (pc = "step" /\ cur = c)

\* C15 witness: the worker is between two steps of one tick; the coroutine it
\* has just stepped yielded and the other one waits in the snapshot.
C15_Witness ==
  /\ pc = "idle" /\ todo # <<>>
  /\ \E c \in coros \ {Head(todo)} : started[c] /\ state[c] = Scheduled

\* C16: a socket that the poller watches for Readable or Writable has its
\* task (the continuation) and its coro (the coroutine that waits) set.
C16_Slots ==
  \A f \in Fds :
    interest[f] \in {Readable, Writable} =>
      /\ task[f].op \in Ops
      /\ task[f].coro \in CIDs

\* C16 witness: the continuation of a connect has run and found SO_ERROR set;
\* the socket is still watched for Writable with both slots set.
C16_Witness ==
  \E f \in fds :
    /\ oscall.fd = f /\ oscall.op = "connect" /\ oscall.out = "fail"
    /\ interest[f] = Writable
    /\ task[f] = [op |-> "connect", coro |-> oscall.coro]

\* C17: on a stream whose peer wrote the whole frame of write_msg(uid, data)
\* before it closed, if at all, the caller of read_msg is resumed with
\* nothing but (uid, data), however the sends and the receives were split.
C17_RoundTrip ==
  (sockType = "stream" /\ ~(eof /\ wpc # "done")) =>
    (delivered = NoCall \/ delivered = [m |-> "send", v |-> Pair(msg.uid, msg.data)])

\* C17 witness: a message with the longest payload and a uid whose bytes
\* differ was delivered after a partial send or receive.
C17_Witness ==
  /\ sockType = "stream"
  /\ partial
  /\ Len(msg.data) = MaxPayload
  /\ pack(msg.uid) # pack_le(msg.uid)
  /\ delivered = [m |-> "send", v |-> Pair(msg.uid, msg.data)]

\* C18: once read_msg has seen its read of the header or of the payload
\* deliver fewer bytes than it asked for, its caller is resumed with
\* (None, None) and with nothing else.
C18_ShortRead ==
  shortRead => (delivered = NoCall \/ delivered = [m |-> "send", v |-> NoneNone])

\* C19: notify sets the flag and, when coroutines wait, removes the head of
\* the waitlist and resumes it (a head that is suspended becomes Scheduled
\* with None pending) and no other coroutine; a wait that finds the flag set
\* clears it, makes the caller the owner and returns False, the waitlist and
\* the caller's state as they were; a wait that finds the flag clear clears
\* the owner, appends the caller at the end of the waitlist, suspends it and
\* returns True.
C19_Protocol ==
  [][/\ cv_notify_ =>
          /\ cv_notify'
          /\ IF cv_waitlist = <<>>
             THEN cv_waitlist' = <<>> /\ UNCHANGED <<state, running, suspended, value>>
             ELSE LET w == Head(cv_waitlist) IN
                  /\ cv_waitlist' = Tail(cv_waitlist)
                  /\ sync'.coro = w
                  /\ (w \in coros /\ state[w] \in {Suspended, Stopped}) =>
                        (state'[w] = Scheduled /\ w \in running' /\ value'[w] = None_)
                  /\ \A c \in CIDs \ {w} : state'[c] = state[c] /\ value'[c] = value[c]
     /\ \A c \in CIDs :
          cv_wait(c) =>
            IF cv_notify
            THEN /\ ~cv_notify' /\ cv_owner' = c /\ sync'.ret = "false"
                 /\ UNCHANGED <<cv_waitlist, state, running, suspended>>
            ELSE /\ ~cv_notify' /\ cv_owner' = 0 /\ sync'.ret = "true"
                 /\ cv_waitlist' = Append(cv_waitlist, c)
                 /\ state'[c] = Suspended /\ c \in suspended' /\ c \notin running']_vars

\* C19 witness: two coroutines waited, and a notify has woken the one that
\* waited first; the other is still in the waitlist.
C19_Witness ==
  /\ sync.op = "notify" /\ sync.coro \in coros
  /\ state[sync.coro] = Scheduled /\ value[sync.coro] = None_
  /\ cv_notify
  /\ Len(cv_waitlist) = 1 /\ cv_waitlist[1] # sync.coro
  /\ state[cv_waitlist[1]] \in {Suspended, Stopped}

\* C20: an acquire that finds an owner and a release by a coroutine that is
\* not the owner fail and leave the owner; the owner of the lock and of the
\* condition changes only from none to the caller of an acquire and from the
\* caller of a release to none.
C20_Owner ==
  [][\A c \in CIDs :
       /\ (lock_acquire(c) /\ lock_owner # 0) => (UNCHANGED lock_owner /\ sync'.ret = "assert")
       /\ (lock_release(c) /\ lock_owner # c) => (UNCHANGED lock_owner /\ sync'.ret = "assert")
       /\ (cv_acquire(c) /\ cv_owner # 0) => (UNCHANGED cv_owner /\ sync'.ret = "assert")
       /\ (cv_release(c) /\ cv_owner # c) => (UNCHANGED cv_owner /\ sync'.ret = "assert")
       /\ (lock_owner' # lock_owner /\ lock_owner' = c) => (lock_owner = 0 /\ lock_acquire(c))
       /\ (lock_owner' # lock_owner /\ lock_owner = c) => (lock_owner' = 0 /\ lock_release(c))
       /\ (cv_owner' # cv_owner /\ cv_owner' = c) => (cv_owner = 0 /\ cv_acquire(c))
       /\ (cv_owner' # cv_owner /\ cv_owner = c) => (cv_owner' = 0 /\ cv_release(c))]_vars

\* C20 witness: a coroutine has just failed to acquire the lock that another
\* coroutine holds, and the condition has an owner as well.
C20_Witness ==
  /\ sync.op = "lock.acquire" /\ sync.ret = "assert"
  /\ lock_owner \in coros \ {sync.coro}
  /\ cv_owner \in coros

\* C21: every identifier that was ever assigned is below the counter, the
\* counter never goes down, and an identifier is assigned only by a step that
\* takes the counter's value, which no coroutine had before, and moves the
\* counter past it: the identifiers go up with the order of the Adds and none
\* is assigned twice, whether or not its coroutine still exists.
C21_Identifiers ==
  /\ [](\A c \in CIDs : state[c] # 0 => c < coro_id)
  /\ [][/\ coro_id' >= coro_id
        /\ \A c \in CIDs :
             (c \in coros' \ coros \/ (state[c] = 0 /\ state'[c] # 0)) =>
               /\ c = coro_id
               /\ coro_id' = c + 1
               /\ state[c] = 0
               /\ \A d \in CIDs : state[d] # 0 => d < c]_vars

\* C21 witness: the first coroutine was destroyed before the second Add, which
\* was made after the worker had left its loop.
C21_Witness ==
  /\ pc = "exited"
  /\ state[1] # 0 /\ 1 \notin coros
  /\ coros = {2} /\ coro_id = 3

\* What a resume or a throw leaves alone: the worker's position, its
\* snapshot, the call in progress and the generators.
C22_NoStep == UNCHANGED <<pc, todo, cur, sent, stack, generator, started>>

C23_Delegation ==
  [][\A out \in OutcomeSet, c \in CIDs :
       (scheduler_outcome(out) /\ cur = c) =>
         LET n == Len(stack[c])
         IN /\ (out.k = "yield" /\ out.v.k = "gen") =>
                 /\ stack'[c] = Append(stack[c], Gen(generator[c]))
                 /\ generator'[c] = out.v.n
                 /\ ~started'[c]
                 /\ value'[c] = None_
                 /\ Call(c)' = [m |-> "send", v |-> None_]
            /\ (out.k # "yield" /\ n > 0 /\ stack[c][n].k = "gen") =>
                 /\ stack'[c] = SubSeq(stack[c], 1, n - 1)
                 /\ generator'[c] = stack[c][n].n
                 /\ started'[c]
                 /\ state'[c] = Scheduled
                 /\ c \in running'
                 /\ Call(c)' = IF out.k = "stop"
                               THEN [m |-> "send", v |-> value[c]]
                               ELSE [m |-> "throw", v |-> out.v]]_vars

\* C24: a coroutine frame is found only at the bottom of a stack; a live
\* coroutine is Frozen exactly when it is the bottom frame of the stack of
\* one live coroutine; and a step that yields the handle of another live
\* coroutine with an empty stack leaves the yielding coroutine Frozen, out of
\* _running and alone on the stack of the yielded one.
C24_Frozen ==
  /\ [](\A c \in coros : \A i \in 1..Len(stack[c]) : stack[c][i].k = "coro" => i = 1)
  /\ [](\A p \in coros :
          state[p] = Frozen <=>
            Cardinality({c \in coros : stack[c] # <<>> /\ stack[c][1] = Handle(p)}) = 1)
  /\ [][\A out \in OutcomeSet, c \in CIDs :
          (/\ scheduler_outcome(out) /\ cur = c
           /\ out.k = "yield" /\ out.v.k = "coro"
           /\ out.v.n \in coros \ {c} /\ stack[out.v.n] = <<>>)
          => /\ state'[c] = Frozen
             /\ c \notin running'
             /\ stack'[out.v.n] = <<Handle(c)>>]_vars

\* C25: the notifier handles each pair of a poll by the pair's own flag: a
\* pair whose descriptor is not in the map, or whose flag is Error, changes
\* no socket and no coroutine and calls nothing; a pair whose flag is Readable
\* or Writable refreshes the timestamp of a tracked socket and calls the
\* continuation the socket holds.
C25_OwnFlag ==
  [][(notifier_dispatch /\ events # <<>>) =>
       LET f == Head(events).fd
           e == Head(events).ev
       IN IF f = 0 \/ e = Error
          THEN oscall' = NoOs /\ UNCHANGED <<sockVars, coreVars>>
          ELSE /\ timestamp[f] # TsNone => timestamp'[f] \in {Ts(nnow), Ts(0), TsNone}
               /\ task[f] # NoTask =>
                    (oscall'.fd = f /\ oscall'.op = task[f].op /\ oscall'.coro = task[f].coro)]_vars

\* What the continuation of a connect does, for an error and for none.
C26_Continuation ==
  (notifier_dispatch /\ oscall'.op = "connect") =>
    LET f == oscall'.fd
        c == oscall'.coro
    IN /\ oscall'.out = "fail" => UNCHANGED <<coreVars, fds, interest, task>>
       /\ oscall'.out = "ok" =>
            /\ interest[f] # "unreg" => interest'[f] = "0"
            /\ Waits(c) =>
                 (state'[c] = Scheduled /\ c \in running' /\ value'[c] = Plain(0))

\* C26 as stated: the continuation of a connect that finds an error changes
\* neither the coroutine nor the interest, the one that finds none sets the
\* interest to 0 and resumes the coroutine with 0; and a coroutine that waited
\* when the continuation of its connect found an error is never runnable
\* again.
C26_Forever ==
  /\ [][C26_Continuation]_vars
  /\ [](\A c \in failed \cap coros : Waits(c))

\* C26 as amended: the continuation of a connect that finds an error changes
\* neither the coroutine nor the interest, the one that finds none sets the
\* interest to 0 and resumes the coroutine with 0; a coroutine that waited
\* when the continuation of its connect found an error becomes runnable only
\* when a later run of the continuation finds no error, with 0 pending, or
\* when the sweep finds the timestamp of a socket that tracks one too old,
\* with the timeout pending as an error.
C26_ConnectError ==
  [][/\ C26_Continuation
     /\ \A c \in failed :
          (Waits(c) /\ ~Waits(c)') =>
            \/ /\ notifier_dispatch
               /\ oscall' = [fd |-> Head(events).fd, op |-> "connect", out |-> "ok", coro |-> c]
               /\ state'[c] = Scheduled /\ value'[c] = Plain(0)
            \/ /\ notifier_sweep
               /\ task[Head(sweepq)].coro = c
               /\ Truthy(timestamp[Head(sweepq)])
               /\ state'[c] = Scheduled /\ value'[c] = TimeoutErr /\ value_is_exc'[c]
            \/ c \notin coros']_vars

\* C26 witness: the continuation of a connect found an error while the
\* coroutine waited, the socket is still watched for Writable, and the sweep
\* has thrown the timeout: the coroutine is runnable.
C26_Witness ==
  \E f \in fds : LET c == task[f].coro IN
    /\ task[f].op = "connect" /\ interest[f] = Writable
    /\ c \in failed \cap coros
    /\ state[c] = Scheduled /\ c \in running
    /\ value[c] = TimeoutErr /\ value_is_exc[c]

\* C27: the expiry of timer entries changes the state, the membership and the
\* pending value only of a coroutine that is still in the sleep that made one
\* of the expired entries; a coroutine that was resumed or thrown into since
\* is left as it is.
C27_StaleTimer ==
  [][(scheduler_tick /\ ~terminate) =>
       LET k == Expired(timeouts, now) IN
       \A c \in coros :
         (~\E j \in 1..k : timeout_cids[j] = c /\ timeouts[j] = sleepUntil[c]) =>
           /\ state'[c] = state[c]
           /\ value'[c] = value[c]
           /\ (c \in running') = (c \in running)
           /\ (c \in suspended') = (c \in suspended)]_vars

\* C28: the error that the notifier throws into a coroutine that has called
\* suspend() in a socket operation and has not yet yielded (Suspended) is
\* kept for it: after the failed send, sendto or write, and after the sweep
\* that found the socket's timestamp too old, the error is the coroutine's
\* pending value and is marked as an error.
C28_ThrowKept ==
  [][/\ (/\ notifier_dispatch
         /\ oscall'.out = "fail" /\ oscall'.op \in WriteOps
         /\ oscall'.coro \in coros /\ state[oscall'.coro] = Suspended)
        => (value'[oscall'.coro] = SockErr /\ value_is_exc'[oscall'.coro])
     /\ (/\ notifier_sweep
         /\ task[Head(sweepq)].coro \in coros
         /\ timestamp[Head(sweepq)] # TsNone
         /\ state[task[Head(sweepq)].coro] = Suspended)
        => (/\ value'[task[Head(sweepq)].coro] = TimeoutErr
            /\ value_is_exc'[task[Head(sweepq)].coro])]_vars

\* C29: a readiness event on a socket whose operation the sweep has timed
\* out, and on which no operation was started since, changes neither the
\* state, nor the pending value, nor the membership of any coroutine.
C29_Abandoned ==
  [][(notifier_dispatch /\ events # <<>> /\ Head(events).fd \in abandoned) =>
       UNCHANGED <<state, value, value_is_exc, running, suspended>>]_vars

\* C30: between two ticks of the worker every coroutine of _suspended is
\* Suspended or Stopped, and every Scheduled coroutine is in _running.
C30_Agreement ==
  (pc = "idle" /\ todo = <<>>) =>
    \A c \in coros :
      /\ c \in suspended => state[c] \in {Suspended, Stopped}
      /\ state[c] = Scheduled => c \in running

\* C31: no notification is lost: once notify has been called k times, each
\* time with a coroutine in the waitlist, and the resumed coroutines call wait
\* again and no other coroutine calls wait, then eventually k calls of wait by
\* resumed coroutines have returned False.
C31_NoLostNotify ==
  \A k \in 1..MaxNotify : (notified = k) ~> (returned >= k)
====
